---- MODULE Spec2Model ----
(***************************************************************************)
(* A model of the ADK backend gateway (src/backend/main.py): the in-memory *)
(* session store, the chat turn run_sse with its single suspension point   *)
(* (the outbound call to the remote agent), the extraction of the agent's  *)
(* text from its reply, and the session endpoints.                         *)
(*                                                                         *)
(* Python values are modelled as JSON values, records with a type tag t    *)
(* and one payload field per type.  Python strings are TLA+ strings.  A    *)
(* Session object lives in `heap` (its index is the object's identity),    *)
(* and the dictionary `sessions` maps a session id to such an object, so   *)
(* that a request holding a reference to a session that was deleted        *)
(* meanwhile is modelled as the code behaves.                              *)
(***************************************************************************)
EXTENDS Integers, Sequences, FiniteSets, TLC

VARIABLES
    sessions,   \* main.py:51   dict: session id -> Session object (index in heap)
    heap,       \* the Session objects ever constructed (models.py:17-24)
    turn,       \* per chat request: the frame of run_sse.generate_sse_response
    clock,      \* the wall clock read by datetime.now()
    deleted,    \* history: the session ids a delete_session has removed
    appendLog,  \* history: per Session object, the ids of the events the chat
                \* requests appended to it, in the order of the appends
    REMOTE_AGENT_URL,       \* main.py:22   the global the outbound call posts to
    websocket_connections,  \* main.py:57   list of the sockets accepted
    ws          \* per socket: the frame of websocket_endpoint

vars == <<sessions, heap, turn, clock, deleted, appendLog, REMOTE_AGENT_URL, websocket_connections, ws>>

(***************************************************************************)
(* Bounds of the model.                                                    *)
(***************************************************************************)
MaxTurns == 2       \* chat requests ever started
MaxSessions == 2    \* Session objects ever constructed
MaxTextLen == 103   \* longest agent text tried by the extraction specification
MaxSockets == 2     \* WebSocket connections ever opened
MaxFrames == 2      \* frames a WebSocket connection receives

Turns == 1..MaxTurns
Sockets == 1..MaxSockets

(***************************************************************************)
(* JSON / Python values.                                                   *)
(***************************************************************************)
\* the payload fields: b of a bool, n of a number, s of a string, items of a
\* list, pairs (the <<key, value>> pairs, keys distinct) of an object
JValue(t, b, n, s, items, pairs) ==
    [t |-> t, b |-> b, n |-> n, s |-> s, items |-> items, pairs |-> pairs]
JNull == JValue("null", FALSE, 0, "", <<>>, <<>>)
JBool(b) == JValue("bool", b, 0, "", <<>>, <<>>)
JNum(n) == JValue("num", FALSE, n, "", <<>>, <<>>)
JStr(s) == JValue("str", FALSE, 0, s, <<>>, <<>>)
JList(items) == JValue("list", FALSE, 0, "", items, <<>>)
JObj(pairs) == JValue("obj", FALSE, 0, "", <<>>, pairs)

EmptyDict == JObj(<<>>)
EmptyList == JList(<<>>)

IsDict(j) == j.t = "obj"
IsStr(j) == j.t = "str"

\* Python truthiness: `if x`, `not x`
Truthy(j) ==
    CASE j.t = "null" -> FALSE
      [] j.t = "bool" -> j.b
      [] j.t = "num" -> j.n # 0
      [] j.t = "str" -> j.s # ""
      [] j.t = "list" -> j.items # <<>>
      [] j.t = "obj" -> j.pairs # <<>>

\* type(x).__name__
PyType(j) ==
    CASE j.t = "null" -> "NoneType"
      [] j.t = "bool" -> "bool"
      [] j.t = "num" -> "int"
      [] j.t = "str" -> "str"
      [] j.t = "list" -> "list"
      [] j.t = "obj" -> "dict"

HasKey(d, k) == \E i \in 1..Len(d.pairs) : d.pairs[i][1] = k

\* dict.get(k, default), d a dict
DictGet(d, k, default) ==
    IF HasKey(d, k)
    THEN d.pairs[CHOOSE i \in 1..Len(d.pairs) : d.pairs[i][1] = k][2]
    ELSE default

\* len(x) is defined for str, list and dict
HasLen(j) == j.t \in {"str", "list", "obj"}
PyLen(j) ==
    CASE j.t = "str" -> Len(j.s)
      [] j.t = "list" -> Len(j.items)
      [] j.t = "obj" -> Len(j.pairs)

RECURSIVE JoinStr(_, _)
JoinStr(strs, sep) ==
    IF strs = <<>> THEN ""
    ELSE IF Len(strs) = 1 THEN strs[1]
    ELSE LET half == Len(strs) \div 2
         IN JoinStr(SubSeq(strs, 1, half), sep) \o sep
            \o JoinStr(SubSeq(strs, half + 1, Len(strs)), sep)

\* json.dumps(x) with the default separators; the strings tried need no escaping
RECURSIVE Dumps(_)
Dumps(j) ==
    CASE j.t = "null" -> "null"
      [] j.t = "bool" -> IF j.b THEN "true" ELSE "false"
      [] j.t = "num" -> ToString(j.n)
      [] j.t = "str" -> "\"" \o j.s \o "\""
      [] j.t = "list" ->
            "[" \o JoinStr([i \in 1..Len(j.items) |-> Dumps(j.items[i])], ", ") \o "]"
      [] j.t = "obj" ->
            "{" \o JoinStr([i \in 1..Len(j.pairs) |->
                    "\"" \o j.pairs[i][1] \o "\": " \o Dumps(j.pairs[i][2])], ", ") \o "}"

(***************************************************************************)
(* The outcome of evaluating Python code that may raise: either a value or *)
(* the exception, of which the handlers only use str(e).                   *)
(***************************************************************************)
Return(val) == [raised |-> FALSE, val |-> val, err |-> ""]
Raise(msg) == [raised |-> TRUE, val |-> JNull, err |-> msg]

\* x.get(...) on a value that is no dict
AttributeError(j) == Raise("'" \o PyType(j) \o "' object has no attribute 'get'")
\* len(x) on a value that has no length
LenTypeError(j) == Raise("object of type '" \o PyType(j) \o "' has no len()")
\* x[0] on a value that cannot be indexed
SubscriptTypeError(j) == Raise("'" \o PyType(j) \o "' object is not subscriptable")
\* d[0] on a dict decoded from JSON, whose keys are all strings
KeyError0 == Raise("0")

\* x[0] of a value x that is truthy
Index0(j) ==
    CASE j.t = "list" -> Return(j.items[1])
      [] j.t = "str" -> Return(JStr(SubSeq(j.s, 1, 1)))
      [] j.t = "obj" -> KeyError0
      [] OTHER -> SubscriptTypeError(j)

(***************************************************************************)
(* Text extraction, main.py:229-262.  Each pattern takes the decoded reply *)
(* and the agent_text found so far and gives the new agent_text, or the    *)
(* exception the code raises there.                                        *)
(***************************************************************************)
\* lines 240: parts[0].get("text", None), reached with parts truthy and sized
Pattern1Text(parts) ==
    LET first == Index0(parts) IN
    IF first.raised THEN first
    ELSE IF ~IsDict(first.val) THEN AttributeError(first.val)
    ELSE Return(DictGet(first.val, "text", JNull))

\* lines 237-240, reached with artifacts truthy and sized
Pattern1Artifact(artifacts) ==
    LET first_artifact == Index0(artifacts) IN
    IF first_artifact.raised THEN first_artifact
    ELSE IF ~IsDict(first_artifact.val) THEN AttributeError(first_artifact.val)
    ELSE LET parts == DictGet(first_artifact.val, "parts", EmptyList) IN
         IF ~Truthy(parts) THEN Return(JNull)
         ELSE IF ~HasLen(parts) THEN LenTypeError(parts)
         ELSE Pattern1Text(parts)

\* Pattern 1: result.artifacts[0].parts[0].text, lines 231-240
Pattern1(agent_response) ==
    IF ~IsDict(agent_response) THEN AttributeError(agent_response)
    ELSE LET result == DictGet(agent_response, "result", EmptyDict) IN
         IF ~IsDict(result) THEN AttributeError(result)
         ELSE LET artifacts == DictGet(result, "artifacts", EmptyList) IN
              IF ~Truthy(artifacts) THEN Return(JNull)
              ELSE IF ~HasLen(artifacts) THEN LenTypeError(artifacts)
              ELSE Pattern1Artifact(artifacts)

\* Pattern 2: direct text in response, lines 243-244
Pattern2(agent_response, agent_text) ==
    IF Truthy(agent_text) THEN Return(agent_text)
    ELSE Return(DictGet(agent_response, "text", JNull))

\* Pattern 3: content.text, lines 247-249
Pattern3(agent_response, agent_text) ==
    IF Truthy(agent_text) THEN Return(agent_text)
    ELSE LET content == DictGet(agent_response, "content", EmptyDict) IN
         IF ~IsDict(content) THEN AttributeError(content)
         ELSE Return(DictGet(content, "text", JNull))

\* Pattern 4: message.content, lines 252-254
Pattern4(agent_response, agent_text) ==
    IF Truthy(agent_text) THEN Return(agent_text)
    ELSE LET message == DictGet(agent_response, "message", EmptyDict) IN
         IF ~IsDict(message) THEN AttributeError(message)
         ELSE Return(DictGet(message, "content", JNull))

\* Pattern 5: response field, lines 257-258
Pattern5(agent_response, agent_text) ==
    IF Truthy(agent_text) THEN Return(agent_text)
    ELSE Return(DictGet(agent_response, "response", JNull))

FallbackPrefix == "Received response but no text field found. Raw response: "

\* Fallback: the whole response as a string, lines 261-262
Fallback(agent_response, agent_text) ==
    IF Truthy(agent_text) THEN Return(agent_text)
    ELSE Return(JStr(FallbackPrefix \o Dumps(agent_response)))

\* the patterns that follow each pattern, given its outcome: an exception
\* raised by a pattern ends the extraction (lines 242-262)
AfterPattern5(agent_response, res) ==
    IF res.raised THEN res ELSE Fallback(agent_response, res.val)
AfterPattern4(agent_response, res) ==
    IF res.raised THEN res
    ELSE AfterPattern5(agent_response, Pattern5(agent_response, res.val))
AfterPattern3(agent_response, res) ==
    IF res.raised THEN res
    ELSE AfterPattern4(agent_response, Pattern4(agent_response, res.val))
AfterPattern2(agent_response, res) ==
    IF res.raised THEN res
    ELSE AfterPattern3(agent_response, Pattern3(agent_response, res.val))
AfterPattern1(agent_response, res) ==
    IF res.raised THEN res
    ELSE AfterPattern2(agent_response, Pattern2(agent_response, res.val))

\* lines 231-262: agent_text after the last pattern, or the exception raised
\* by the first pattern that raises
ExtractText(agent_response) ==
    AfterPattern1(agent_response, Pattern1(agent_response))

(***************************************************************************)
(* Identifiers and time.                                                   *)
(***************************************************************************)
\* str(uuid.uuid4()): no two draws give the same value.  A draw is named by
\* where it is made: the k-th draw of chat request t, or the draw that names
\* the r-th Session object
RequestUuid(t, k) == "uuid-r" \o ToString(t) \o "-" \o ToString(k)
SessionUuid(r) == "uuid-s" \o ToString(r)

\* datetime.isoformat() of the clock value c
IsoFormat(c) == "T" \o ToString(c)

\* the ids get_session and get_session_trace treat as unset, main.py:401, 528
Sentinels == {"undefined", "null", ""}

(***************************************************************************)
(* Sessions and events.                                                    *)
(***************************************************************************)
\* Session(id, appName, userId, createdAt, events), models.py:17-24:
\* `events or []` and `state or {}`
Session(id, appName, userId, createdAt, events) ==
    [id |-> id, appName |-> appName, userId |-> userId, createdAt |-> createdAt,
     events |-> events, state |-> EmptyDict]

\* sessions[session_id] = session, the object being the new last one of the heap
StoreSession(store, session_id, ref) ==
    [k \in DOMAIN store \cup {session_id} |-> IF k = session_id THEN ref ELSE store[k]]

\* del sessions[session_id]
RemoveSession(store, session_id) ==
    [k \in DOMAIN store \ {session_id} |-> store[k]]

\* the user_event of main.py:181-188
UserEvent(id, now, new_message, session_id) ==
    [id |-> id, timestamp |-> IsoFormat(now), type |-> "user_message", role |-> "user",
     content |-> new_message, sessionId |-> session_id]

\* the agent_event of main.py:282-290
AgentEvent(id, now, content, session_id, agent_response) ==
    [id |-> id, timestamp |-> IsoFormat(now), type |-> "agent_response",
     role |-> "assistant", content |-> content, sessionId |-> session_id,
     rawResponse |-> agent_response]

\* events.insert(0, event): what the event log would be if the newest event
\* were put first.  The code never does this; the ordering property of the
\* log is tested against it.
InsertEventFirst(session, event) ==
    [session EXCEPT !.events = <<event>> \o @]

\* events[-1] = event on a log that holds events: what the log would be if
\* the newest event took the place of the last one.  The code never does
\* this; the append-only property is tested against it.
ReplaceLastEvent(session, event) ==
    [session EXCEPT !.events =
        IF @ = <<>> THEN <<event>> ELSE Append(SubSeq(@, 1, Len(@) - 1), event)]

\* current_session.events.append(event)
AppendEvent(session, event) ==
    [session EXCEPT !.events = Append(@, event)]

\* {"parts": [{"text": text}]}, main.py:269-275
Content(text) ==
    JObj(<< <<"parts", JList(<< JObj(<< <<"text", text>> >>) >>)>> >>)

\* a frame of the stream: {id, author: "model", content: {parts: [{text}]}}
Frame(id, text) ==
    [id |-> id, author |-> "model", content |-> Content(text)]

\* the number of characters kept by the state snapshot, main.py:297
TruncateAt == 100

\* a snapshot that cuts from 100 characters on, not from 101.  The code never
\* does this; the truncation property is tested against it.
LastAgentResponseFrom100(agent_text) ==
    IF ~HasLen(agent_text) THEN LenTypeError(agent_text)
    ELSE IF PyLen(agent_text) >= TruncateAt
         THEN CASE agent_text.t = "str" ->
                       Return(JStr(SubSeq(agent_text.s, 1, TruncateAt) \o "..."))
                [] agent_text.t = "list" ->
                       Raise("can only concatenate list (not \"str\") to list")
                [] OTHER -> Raise("unhashable type: 'slice'")
         ELSE Return(agent_text)

\* agent_text[:100] + "..." if len(agent_text) > 100 else agent_text, main.py:297.
\* None of the replies tried holds a dict of more than 100 keys, whose slice
\* raises an exception that depends on the Python version.
LastAgentResponse(agent_text) ==
    IF ~HasLen(agent_text) THEN LenTypeError(agent_text)
    ELSE IF PyLen(agent_text) > TruncateAt
         THEN CASE agent_text.t = "str" ->
                       Return(JStr(SubSeq(agent_text.s, 1, TruncateAt) \o "..."))
                [] agent_text.t = "list" ->
                       Raise("can only concatenate list (not \"str\") to list")
                [] OTHER -> Raise("unhashable type: 'slice'")
         ELSE Return(agent_text)

\* the state snapshot of main.py:294-298
StateSnapshot(now, messageCount, lastAgentResponse) ==
    JObj(<< <<"lastActivity", JStr(IsoFormat(now))>>,
            <<"messageCount", JNum(messageCount)>>,
            <<"lastAgentResponse", lastAgentResponse>> >>)

(***************************************************************************)
(* The session endpoints, as functions of the store they run on.  Each     *)
(* gives the HTTP status, the body, and the store it leaves.               *)
(***************************************************************************)
Response(status, detail, body, store, objs) ==
    [status |-> status, detail |-> detail, body |-> body,
     sessions |-> store, heap |-> objs]

\* the session as get_session returns it, main.py:412-419, 428-435
SessionBody(session) ==
    << [id |-> session.id, appName |-> session.appName, userId |-> session.userId,
        createdAt |-> IsoFormat(session.createdAt), events |-> session.events,
        state |-> session.state] >>

\* create_session, main.py:368-379
create_session(store, objs, now, app_name, user_id) ==
    LET session_id == SessionUuid(Len(objs) + 1)
        session == Session(session_id, app_name, user_id, now, <<>>)
    IN Response(200, "created", << [sessionId |-> session_id] >>,
                StoreSession(store, session_id, Len(objs) + 1),
                Append(objs, session))

\* a get_session that skips the ownership test of main.py:424-425.  The code
\* never does this; the properties of the 403 answer are tested against it.
get_session_unchecked(store, objs, now, app_name, user_id, session_id) ==
    IF session_id \in Sentinels
    THEN LET new_session_id == SessionUuid(Len(objs) + 1)
             session == Session(new_session_id, app_name, user_id, now, <<>>)
         IN Response(200, "", SessionBody(session),
                     StoreSession(store, new_session_id, Len(objs) + 1),
                     Append(objs, session))
    ELSE IF session_id \notin DOMAIN store
    THEN Response(404, "Session not found", <<>>, store, objs)
    ELSE Response(200, "", SessionBody(objs[store[session_id]]), store, objs)

\* get_session, main.py:398-435
get_session(store, objs, now, app_name, user_id, session_id) ==
    IF session_id \in Sentinels
    THEN LET new_session_id == SessionUuid(Len(objs) + 1)
             session == Session(new_session_id, app_name, user_id, now, <<>>)
         IN Response(200, "", SessionBody(session),
                     StoreSession(store, new_session_id, Len(objs) + 1),
                     Append(objs, session))
    ELSE IF session_id \notin DOMAIN store
    THEN Response(404, "Session not found", <<>>, store, objs)
    ELSE LET session == objs[store[session_id]] IN
         IF session.userId # user_id \/ session.appName # app_name
         THEN Response(403, "Access denied", <<>>, store, objs)
         ELSE Response(200, "", SessionBody(session), store, objs)

\* a delete_session that skips the ownership test of main.py:444-445.  The
\* code never does this; the lifecycle property is tested against it.
delete_session_unchecked(store, objs, app_name, user_id, session_id) ==
    IF session_id \notin DOMAIN store
    THEN Response(404, "Session not found", <<>>, store, objs)
    ELSE Response(200, "deleted", <<>>, RemoveSession(store, session_id), objs)

\* delete_session, main.py:438-449
delete_session(store, objs, app_name, user_id, session_id) ==
    IF session_id \notin DOMAIN store
    THEN Response(404, "Session not found", <<>>, store, objs)
    ELSE LET session == objs[store[session_id]] IN
         IF session.userId # user_id \/ session.appName # app_name
         THEN Response(403, "Access denied", <<>>, store, objs)
         ELSE Response(200, "deleted", <<>>, RemoveSession(store, session_id), objs)

\* the entry of a session in the answer of list_sessions, main.py:385-391
SessionItem(session) ==
    [id |-> session.id, appName |-> session.appName, userId |-> session.userId,
     createdAt |-> IsoFormat(session.createdAt), eventCount |-> Len(session.events)]

\* the session objects of sessions.values(), in the order of the dict: a
\* key is stored with an object made for it, so the order of insertion is
\* the order of the objects
StoredRefs(store, objs) ==
    SelectSeq([r \in 1..Len(objs) |-> r], LAMBDA r : \E k \in DOMAIN store : store[k] = r)

\* a list_sessions that filters by the user only.  The code never does
\* this; the property of the listing is tested against it.
list_sessions_any_app(store, objs, app_name, user_id) ==
    LET refs == SelectSeq(StoredRefs(store, objs), LAMBDA r : objs[r].userId = user_id)
    IN [i \in DOMAIN refs |-> SessionItem(objs[refs[i]])]

\* list_sessions, main.py:382-395: the list under the key "sessions"
list_sessions(store, objs, app_name, user_id) ==
    LET refs == SelectSeq(StoredRefs(store, objs),
                          LAMBDA r : objs[r].userId = user_id /\ objs[r].appName = app_name)
    IN [i \in DOMAIN refs |-> SessionItem(objs[refs[i]])]

\* the answer of get_session_trace: trace is the list of trace events, and
\* performance is empty for {} and holds the record of the counts otherwise
TraceResponse(status, session_id, trace, performance, store, objs) ==
    [status |-> status, sessionId |-> session_id, trace |-> trace,
     performance |-> performance, sessions |-> store, heap |-> objs]

\* the trace event of an event, main.py:535-542
TraceEvent(event) ==
    [id |-> event.id, timestamp |-> event.timestamp, type |-> event.type,
     role |-> event.role, content |-> event.content, sessionId |-> event.sessionId]

\* len([e for e in trace_events if e["role"] == role])
CountRole(trace_events, role) ==
    Cardinality({i \in DOMAIN trace_events : trace_events[i].role = role})

\* a get_session_trace that looks every id up, the placeholders too.  The
\* code never does this; the property of the empty trace is tested against
\* it.
get_session_trace_unguarded(store, objs, session_id) ==
    IF session_id \in DOMAIN store
    THEN LET session == objs[store[session_id]]
             trace_events == [i \in DOMAIN session.events |-> TraceEvent(session.events[i])]
         IN TraceResponse(200, session_id, trace_events,
                << [totalEvents |-> Len(trace_events),
                    userMessages |-> CountRole(trace_events, "user"),
                    agentMessages |-> CountRole(trace_events, "assistant")] >>,
                store, objs)
    ELSE TraceResponse(200, session_id, <<>>, <<>>, store, objs)

\* get_session_trace, main.py:525-555
get_session_trace(store, objs, session_id) ==
    IF session_id \in Sentinels
    THEN TraceResponse(200, session_id, <<>>, <<>>, store, objs)
    ELSE IF session_id \in DOMAIN store
    THEN LET session == objs[store[session_id]]
             trace_events == [i \in DOMAIN session.events |-> TraceEvent(session.events[i])]
         IN TraceResponse(200, session_id, trace_events,
                << [totalEvents |-> Len(trace_events),
                    userMessages |-> CountRole(trace_events, "user"),
                    agentMessages |-> CountRole(trace_events, "assistant")] >>,
                store, objs)
    ELSE TraceResponse(200, session_id, <<>>, <<>>, store, objs)

\* import_session, main.py:452-463; session_data.get("events", []) and the
\* `events or []` of models.py:23
import_session(store, objs, now, app_name, user_id, session_data) ==
    LET session_id == SessionUuid(Len(objs) + 1)
        events == IF session_data.has_events THEN session_data.events ELSE <<>>
        session == Session(session_id, app_name, user_id, now, events)
    IN Response(200, "imported", << [sessionId |-> session_id] >>,
                StoreSession(store, session_id, Len(objs) + 1),
                Append(objs, session))

\* the routes of the session paths in the order the decorators register
\* them (main.py:367, 381, 397, 437, 451); a request is served by the first
\* route whose method and path match it
SessionsPath == "/apps/{app_name}/users/{user_id}/sessions"
SessionPath == "/apps/{app_name}/users/{user_id}/sessions/{session_id}"
Route(method, path, endpoint) == [method |-> method, path |-> path, endpoint |-> endpoint]
Routes ==
    << Route("POST", SessionsPath, "create_session"),
       Route("GET", SessionsPath, "list_sessions"),
       Route("GET", SessionPath, "get_session"),
       Route("DELETE", SessionPath, "delete_session"),
       Route("POST", SessionsPath, "import_session") >>
Matches(route, method, path) == route.method = method /\ route.path = path
Endpoint(method, path) ==
    Routes[CHOOSE i \in DOMAIN Routes :
              /\ Matches(Routes[i], method, path)
              /\ \A j \in 1..(i - 1) : ~Matches(Routes[j], method, path)].endpoint

\* POST /apps/{app_name}/users/{user_id}/sessions with a JSON body, as the
\* router serves it
post_sessions(store, objs, now, app_name, user_id, session_data) ==
    IF Endpoint("POST", SessionsPath) = "create_session"
    THEN create_session(store, objs, now, app_name, user_id)
    ELSE import_session(store, objs, now, app_name, user_id, session_data)

(***************************************************************************)
(* The chat turn, run_sse.generate_sse_response, main.py:163-362.          *)
(***************************************************************************)
\* the text part of the envelope, main.py:201
EnvelopeText(new_message) ==
    IF ~IsDict(new_message) THEN AttributeError(new_message)
    ELSE IF Truthy(DictGet(new_message, "parts", JNull))
    THEN LET first == Index0(DictGet(new_message, "parts", JList(<<EmptyDict>>))) IN
         IF first.raised THEN first
         ELSE IF ~IsDict(first.val) THEN AttributeError(first.val)
         ELSE Return(DictGet(first.val, "text", JStr("Hello")))
    ELSE Return(DictGet(new_message, "text", JStr("Hello")))

\* the envelope sent to the remote agent, main.py:192-211
AgentRequest(id, messageId, text, session_id, app_name, user_id) ==
    [id |-> "msg-" \o id, messageId |-> "msg-" \o messageId, role |-> "user",
     text |-> text, contextId |-> "context-" \o session_id, sessionId |-> session_id,
     appName |-> app_name, userId |-> user_id]

NoRequest == AgentRequest("", "", JNull, "", "", "")

\* what a finished step of the generator leaves: the session object it worked
\* on and the frames it yielded
StepResult(session, frames) ==
    [session |-> session, frames |-> frames]

\* the except clause of main.py:303-318
ParseErrorFrame(id, err) == Frame(id, JStr("Error parsing response: " \o err))

\* the 200 branch after response.json(), main.py:225-318
\* (the request has drawn three uuids before the outbound call)
HandleReply(session, agent_response, session_id, t, now) ==
    LET ext == ExtractText(agent_response) IN
    IF ext.raised
    THEN StepResult(session, <<ParseErrorFrame(RequestUuid(t, 4), ext.err)>>)
    ELSE LET agent_text == ext.val
             formatted_response == Frame(RequestUuid(t, 4), agent_text)
             agent_event == AgentEvent(RequestUuid(t, 5), now, formatted_response.content,
                                       session_id, agent_response)
             appended == AppendEvent(session, agent_event)
             last == LastAgentResponse(agent_text)
         IN IF last.raised
            THEN StepResult(appended, <<ParseErrorFrame(RequestUuid(t, 6), last.err)>>)
            ELSE StepResult(
                    [appended EXCEPT !.state =
                        StateSnapshot(now, Len(appended.events), last.val)],
                    <<formatted_response>>)

\* the remote agent's answers to the outbound call, as httpx gives them:
\* a response with a status and a body (decodable as JSON or not), or
\* a RequestError (connection refused, DNS failure, timeout)
HttpResponse(status, isJson, body) ==
    [kind |-> "response", status |-> status, isJson |-> isJson, body |-> body]
RequestError == [kind |-> "RequestError", status |-> 0, isJson |-> FALSE, body |-> JNull]

ConnectErrorText ==
    "Could not connect to remote agent. Please check if the agent is running on port 8080."

\* str(e) of the JSONDecodeError response.json() raises on a body that is no JSON
JSONDecodeErrorText == "Expecting value: line 1 column 1 (char 0)"

\* a generator that records the error frame of a failed call as an
\* agent_response event.  The code never does this; the property of the
\* failed call is tested against it.
HandleOutcomeLogsFailure(session, outcome, session_id, t, now) ==
    IF outcome.kind = "RequestError"
    THEN StepResult(AppendEvent(session,
                        AgentEvent(RequestUuid(t, 5), now, Content(JStr(ConnectErrorText)),
                                   session_id, JNull)),
                    <<Frame(RequestUuid(t, 4), JStr(ConnectErrorText))>>)
    ELSE IF outcome.status # 200
    THEN StepResult(AppendEvent(session,
                        AgentEvent(RequestUuid(t, 5), now,
                                   Content(JStr("Agent error: " \o ToString(outcome.status))),
                                   session_id, JNull)),
            <<Frame(RequestUuid(t, 4),
                    JStr("Agent error: " \o ToString(outcome.status)))>>)
    ELSE IF ~outcome.isJson
    THEN StepResult(session,
            <<Frame(RequestUuid(t, 4),
                    JStr("Unexpected error: " \o JSONDecodeErrorText))>>)
    ELSE HandleReply(session, outcome.body, session_id, t, now)

\* a generator whose handler of httpx.RequestError yields nothing.  The code
\* never does this; the one-frame property is tested against it.
HandleOutcomeSilent(session, outcome, session_id, t, now) ==
    IF outcome.kind = "RequestError"
    THEN StepResult(session, <<>>)
    ELSE IF outcome.status # 200
    THEN StepResult(session,
            <<Frame(RequestUuid(t, 4),
                    JStr("Agent error: " \o ToString(outcome.status)))>>)
    ELSE IF ~outcome.isJson
    THEN StepResult(session,
            <<Frame(RequestUuid(t, 4),
                    JStr("Unexpected error: " \o JSONDecodeErrorText))>>)
    ELSE HandleReply(session, outcome.body, session_id, t, now)

\* the generator from the return of client.post to its end, main.py:224-362
HandleOutcome(session, outcome, session_id, t, now) ==
    IF outcome.kind = "RequestError"
    THEN StepResult(session, <<Frame(RequestUuid(t, 4), JStr(ConnectErrorText))>>)
    ELSE IF outcome.status # 200
    THEN StepResult(session,
            <<Frame(RequestUuid(t, 4),
                    JStr("Agent error: " \o ToString(outcome.status)))>>)
    ELSE IF ~outcome.isJson
    THEN StepResult(session,
            <<Frame(RequestUuid(t, 4),
                    JStr("Unexpected error: " \o JSONDecodeErrorText))>>)
    ELSE HandleReply(session, outcome.body, session_id, t, now)

\* a get-or-create that does not look the id up and always stores a new
\* Session.  The code never does this; the no-lost-write property is tested
\* against it.
AlwaysCreate(store, objs, now, app_name, user_id, session_id) ==
    [sessions |-> StoreSession(store, session_id, Len(objs) + 1),
     heap |-> Append(objs, Session(session_id, app_name, user_id, now, <<>>))]

\* get or create session, main.py:166-175: the store and the objects after it
GetOrCreate(store, objs, now, app_name, user_id, session_id) ==
    IF session_id \notin DOMAIN store
    THEN [sessions |-> StoreSession(store, session_id, Len(objs) + 1),
          heap |-> Append(objs, Session(session_id, app_name, user_id, now, <<>>))]
    ELSE [sessions |-> store, heap |-> objs]

NoResponse == [kind |-> "none", status |-> 0, isJson |-> FALSE, body |-> JNull]

\* the frame of a request: its position, the locals of the generator and the
\* frames it has yielded to the client
TurnFrame(pc, app_name, user_id, session_id, new_message, current_session, user_event_id, agent_request, response, frames) ==
    [pc |-> pc, app_name |-> app_name, user_id |-> user_id, session_id |-> session_id,
     new_message |-> new_message, current_session |-> current_session,
     user_event_id |-> user_event_id, agent_request |-> agent_request,
     response |-> response, frames |-> frames]

IdleTurn == TurnFrame("idle", "", "", "", JNull, 0, "", NoRequest, NoResponse, <<>>)

(***************************************************************************)
(* The configuration of the remote agent, main.py:22-39.                   *)
(***************************************************************************)
\* REMOTE_AGENT_URL = "http://localhost:8080", main.py:22
DefaultAgentUrl == JStr("http://localhost:8080")

\* the answer of a configuration endpoint and the URL it leaves
ConfigResponse(status, detail, remote_agent_url, url) ==
    [status |-> status, detail |-> detail, remote_agent_url |-> remote_agent_url,
     url |-> url]

\* an update_agent_url that stores whatever url the body holds.  The code
\* never does this; the property of the rejected update is tested against it.
update_agent_url_unvalidated(url, config) ==
    LET new_url == DictGet(config, "url", JStr("")) IN
    ConfigResponse(200, "updated", new_url, new_url)

\* update_agent_url, main.py:25-34
update_agent_url(url, config) ==
    LET new_url == DictGet(config, "url", JStr("")) IN
    IF Truthy(new_url)
    THEN ConfigResponse(200, "updated", new_url, new_url)
    ELSE ConfigResponse(400, "URL is required", JNull, url)

\* get_agent_url, main.py:37-39
get_agent_url(url) == ConfigResponse(200, "", url, url)

(***************************************************************************)
(* The echo channel, websocket_endpoint, main.py:591-616.                  *)
(***************************************************************************)
\* the frame of a handler: where it is, the frames it has received and the
\* last response it has sent
SocketFrame(pc, received, sent) == [pc |-> pc, received |-> received, sent |-> sent]
NoSent == [type |-> "", content |-> "", timestamp |-> ""]
NoSocket == SocketFrame("idle", 0, NoSent)

\* a text frame of the client: the text, and the value json.loads gives
\* when the text is JSON
TextFrame(isJson, message) == [isJson |-> isJson, message |-> message]

\* the response of main.py:604-608; f"Received: {message}" of a string is
\* the string itself
EchoResponse(message, now) ==
    [type |-> "response", content |-> "Received: " \o message, timestamp |-> IsoFormat(now)]

\* websocket_connections.remove(websocket)
RemoveSocket(conns, w) == SelectSeq(conns, LAMBDA x : x # w)

(***************************************************************************)
(* Initial state: main.py:51, no session, no request.                      *)
(***************************************************************************)
Init ==
    /\ sessions = [k \in {} |-> 0]
    /\ heap = <<>>
    /\ turn = [t \in Turns |-> IdleTurn]
    /\ clock = 0
    /\ deleted = {}
    /\ appendLog = <<>>
    /\ REMOTE_AGENT_URL = DefaultAgentUrl
    /\ websocket_connections = <<>>
    /\ ws = [w \in Sockets |-> NoSocket]

(***************************************************************************)
(* Actions.  A step that reads datetime.now() finds the clock advanced.    *)
(***************************************************************************)
\* the history of appends, with an empty entry for a Session object just made
Grown(log, objs) == IF Len(objs) > Len(log) THEN Append(log, <<>>) ELSE log

\* run_sse up to the outbound call (main.py:158-222), which is the only point
\* where the generator is suspended; a newMessage on which the envelope
\* cannot be built ends the turn here with the frame of main.py:349-362.
\* Requests are numbered in the order they arrive.
RunSseStart(t, app_name, user_id, session_id, new_message) ==
    /\ turn[t].pc = "idle"
    /\ t > 1 => turn[t - 1].pc # "idle"
    /\ session_id \in DOMAIN sessions \/ Len(heap) < MaxSessions
    /\ clock' = clock + 1
    /\ LET got == GetOrCreate(sessions, heap, clock', app_name, user_id, session_id)
           current_session == got.sessions[session_id]
           user_event_id == RequestUuid(t, 1)
           user_event == UserEvent(user_event_id, clock', new_message, session_id)
           text == EnvelopeText(new_message)
       IN /\ sessions' = got.sessions
          /\ heap' = [got.heap EXCEPT ![current_session] = AppendEvent(@, user_event)]
          /\ turn' = [turn EXCEPT ![t] =
                IF text.raised
                THEN TurnFrame("done", app_name, user_id, session_id, new_message,
                               current_session, user_event_id, NoRequest, NoResponse,
                               <<Frame(RequestUuid(t, 4),
                                       JStr("Unexpected error: " \o text.err))>>)
                ELSE TurnFrame("awaiting", app_name, user_id, session_id, new_message,
                               current_session, user_event_id,
                               AgentRequest(RequestUuid(t, 2), RequestUuid(t, 3),
                                            text.val, session_id, app_name, user_id),
                               NoResponse, <<>>)]
          /\ appendLog' = [Grown(appendLog, got.heap) EXCEPT
                              ![current_session] = Append(@, user_event_id)]
    /\ UNCHANGED <<deleted, REMOTE_AGENT_URL, websocket_connections, ws>>

\* run_sse from the return of the outbound call to the end of the stream
\* (main.py:224-362)
RunSseComplete(t, outcome) ==
    /\ turn[t].pc = "awaiting"
    /\ clock' = clock + 1
    /\ LET res == HandleOutcome(heap[turn[t].current_session], outcome,
                                turn[t].session_id, t, clock')
           grew == Len(res.session.events) > Len(heap[turn[t].current_session].events)
       IN /\ heap' = [heap EXCEPT ![turn[t].current_session] = res.session]
          /\ turn' = [turn EXCEPT ![t].pc = "done", ![t].response = outcome,
                                  ![t].frames = res.frames]
          /\ appendLog' = IF grew
                         THEN [appendLog EXCEPT ![turn[t].current_session] =
                                  Append(@, RequestUuid(t, 5))]
                         ELSE appendLog
    /\ UNCHANGED <<sessions, deleted, REMOTE_AGENT_URL, websocket_connections, ws>>

\* POST /apps/{app_name}/users/{user_id}/sessions
CreateSession(app_name, user_id) ==
    /\ Len(heap) < MaxSessions
    /\ clock' = clock + 1
    /\ LET r == create_session(sessions, heap, clock', app_name, user_id)
       IN /\ sessions' = r.sessions
          /\ heap' = r.heap
          /\ appendLog' = Grown(appendLog, r.heap)
    /\ UNCHANGED <<turn, deleted, REMOTE_AGENT_URL, websocket_connections, ws>>

\* POST /apps/{app_name}/users/{user_id}/sessions with a body
PostSessions(app_name, user_id, session_data) ==
    /\ Len(heap) < MaxSessions
    /\ clock' = clock + 1
    /\ LET r == post_sessions(sessions, heap, clock', app_name, user_id, session_data)
       IN /\ sessions' = r.sessions
          /\ heap' = r.heap
          /\ appendLog' = Grown(appendLog, r.heap)
    /\ UNCHANGED <<turn, deleted, REMOTE_AGENT_URL, websocket_connections, ws>>

\* GET /apps/{app_name}/users/{user_id}/sessions/{session_id}
GetSession(app_name, user_id, session_id) ==
    /\ session_id \in Sentinels => Len(heap) < MaxSessions
    /\ clock' = IF session_id \in Sentinels THEN clock + 1 ELSE clock
    /\ LET r == get_session(sessions, heap, clock', app_name, user_id, session_id)
       IN /\ sessions' = r.sessions
          /\ heap' = r.heap
          /\ appendLog' = Grown(appendLog, r.heap)
    /\ UNCHANGED <<turn, deleted, REMOTE_AGENT_URL, websocket_connections, ws>>

\* DELETE /apps/{app_name}/users/{user_id}/sessions/{session_id}
DeleteSession(app_name, user_id, session_id) ==
    /\ LET r == delete_session(sessions, heap, app_name, user_id, session_id)
       IN /\ sessions' = r.sessions
          /\ heap' = r.heap
          /\ deleted' = IF r.status = 200 THEN deleted \cup {session_id} ELSE deleted
    /\ UNCHANGED <<turn, clock, appendLog, REMOTE_AGENT_URL, websocket_connections, ws>>

\* PUT /config/agent-url
UpdateAgentUrl(config) ==
    /\ REMOTE_AGENT_URL' = update_agent_url(REMOTE_AGENT_URL, config).url
    /\ UNCHANGED <<sessions, heap, turn, clock, deleted, appendLog, websocket_connections, ws>>

\* /ws: accept and websocket_connections.append, main.py:593-594.
\* Sockets are numbered in the order they connect.
WsConnect(w) ==
    /\ ws[w].pc = "idle"
    /\ w > 1 => ws[w - 1].pc # "idle"
    /\ websocket_connections' = Append(websocket_connections, w)
    /\ ws' = [ws EXCEPT ![w].pc = "receiving"]
    /\ UNCHANGED <<sessions, heap, turn, clock, deleted, appendLog, REMOTE_AGENT_URL>>

\* /ws: a text frame arrives, main.py:600-610.  json.loads raises on a text
\* that is no JSON, and the only handler is that of WebSocketDisconnect: the
\* exception ends websocket_endpoint.
WsReceive(w, frame) ==
    /\ ws[w].pc = "receiving"
    /\ ws[w].received < MaxFrames
    /\ clock' = IF frame.isJson THEN clock + 1 ELSE clock
    /\ ws' = [ws EXCEPT ![w] =
            IF frame.isJson
            THEN SocketFrame("receiving", @.received + 1, EchoResponse(frame.message, clock'))
            ELSE SocketFrame("ended", @.received + 1, @.sent)]
    /\ UNCHANGED <<sessions, heap, turn, deleted, appendLog, REMOTE_AGENT_URL, websocket_connections>>

\* /ws: the client disconnects, receive_text raises WebSocketDisconnect,
\* main.py:614-616
WsDisconnect(w) ==
    /\ ws[w].pc = "receiving"
    /\ websocket_connections' = RemoveSocket(websocket_connections, w)
    /\ ws' = [ws EXCEPT ![w].pc = "ended"]
    /\ UNCHANGED <<sessions, heap, turn, clock, deleted, appendLog, REMOTE_AGENT_URL>>

(***************************************************************************)
(* Inputs.                                                                 *)
(***************************************************************************)
\* the (appName, userId) pairs of the callers
Callers == {<<"appA", "alice">>, <<"appA", "bob">>, <<"appB", "alice">>}

\* the session ids a client may send: one of its own choice, an unset
\* sentinel, and every id the server has given out
ClientIds == {"s1", "undefined"}
KnownIds == ClientIds \cup {heap[r].id : r \in DOMAIN heap}

\* newMessage values: {parts: [{text}]}, {text}, and values on which the
\* envelope cannot be built
MsgParts(text) == JObj(<< <<"parts", JList(<< JObj(<< <<"text", JStr(text)>> >>) >>)>> >>)
MsgText(text) == JObj(<< <<"text", JStr(text)>> >>)
Messages == {MsgParts("hi")}
TurnMessages ==
    {MsgParts("hi"), MsgText(""), JStr("hi"), JNull,
     JObj(<< <<"parts", JList(<<JStr("hi")>>)>> >>)}

\* bodies of an import request: with no events key, and with the events of
\* a session exported earlier
ImportBody(has_events, events) == [has_events |-> has_events, events |-> events]
ImportBodies ==
    {ImportBody(FALSE, <<>>),
     ImportBody(TRUE, <<UserEvent("uuid-x1", 0, MsgParts("hi"), "uuid-x0")>>)}

\* replies of the remote agent
ReplyText(text) == JObj(<< <<"text", text>> >>)
Outcomes ==
    {HttpResponse(200, TRUE, ReplyText(JStr("hello"))),
     HttpResponse(500, FALSE, JNull),
     RequestError}
TurnOutcomes ==
    {HttpResponse(200, TRUE, ReplyText(JStr("hello"))),
     HttpResponse(200, TRUE, ReplyText(JNum(5))),
     HttpResponse(200, TRUE, ReplyText(JList(<<JNum(1)>>))),
     HttpResponse(200, TRUE, JObj(<< <<"result", JNull>>, <<"text", JStr("hello")>> >>)),
     HttpResponse(200, TRUE, JList(<<JStr("hello")>>)),
     HttpResponse(200, FALSE, JNull),
     HttpResponse(500, FALSE, JNull),
     RequestError}

(***************************************************************************)
(* The session store under concurrent chat requests.                       *)
(***************************************************************************)
Next ==
    \/ \E t \in Turns, c \in Callers, id \in KnownIds, m \in Messages :
          RunSseStart(t, c[1], c[2], id, m)
    \/ \E t \in Turns, o \in Outcomes : RunSseComplete(t, o)
    \/ \E c \in Callers : CreateSession(c[1], c[2])
    \/ \E c \in Callers, b \in ImportBodies : PostSessions(c[1], c[2], b)
    \/ \E c \in Callers, id \in KnownIds : GetSession(c[1], c[2], id)
    \/ \E c \in Callers, id \in KnownIds : DeleteSession(c[1], c[2], id)

Spec == Init /\ [][Next]_vars

(***************************************************************************)
(* The gateway with its configuration and its echo channel, beside a chat  *)
(* turn and the session endpoints.                                         *)
(***************************************************************************)
\* bodies of PUT /config/agent-url: a URL, a text that is no URL, and the
\* bodies whose url is empty, null or missing
ConfigBody(url) == JObj(<< <<"url", url>> >>)
ConfigBodies ==
    {ConfigBody(JStr("http://agent:9000")), ConfigBody(JStr("not a url")),
     ConfigBody(JStr("")), ConfigBody(JNull), EmptyDict}

\* text frames of a /ws client: the JSON text "hi" and a text that is no JSON
TextFrames == {TextFrame(TRUE, "hi"), TextFrame(FALSE, "")}

GatewayNext ==
    \/ \E config \in ConfigBodies : UpdateAgentUrl(config)
    \/ \E w \in Sockets : WsConnect(w)
    \/ \E w \in Sockets, frame \in TextFrames : WsReceive(w, frame)
    \/ \E w \in Sockets : WsDisconnect(w)
    \/ RunSseStart(1, "appA", "alice", "s1", MsgParts("hi"))
    \/ \E o \in Outcomes : RunSseComplete(1, o)
    \/ CreateSession("appA", "alice")
    \/ \E id \in KnownIds : GetSession("appA", "bob", id)
    \/ \E id \in KnownIds : DeleteSession("appA", "alice", id)

GatewaySpec == Init /\ [][GatewayNext]_vars

(***************************************************************************)
(* The chat turn under every kind of newMessage and of outcome of the      *)
(* outbound call.  httpx ends the call by a response, an error or the      *)
(* timeout of 30 s (main.py:221), which is the fairness assumed.           *)
(***************************************************************************)
TurnNext ==
    \/ \E t \in Turns, m \in TurnMessages : RunSseStart(t, "appA", "alice", "s1", m)
    \/ \E t \in Turns, o \in TurnOutcomes : RunSseComplete(t, o)
    \/ DeleteSession("appA", "alice", "s1")

TurnSpec ==
    /\ Init
    /\ [][TurnNext]_vars
    /\ \A t \in Turns : WF_vars(\E o \in TurnOutcomes : RunSseComplete(t, o))

(***************************************************************************)
(* One chat turn under the replies the extraction is probed with.          *)
(***************************************************************************)
\* a string of n characters, the digits in turn
RECURSIVE Str(_)
Str(n) == IF n < 10 THEN SubSeq("1234567890", 1, n) ELSE "1234567890" \o Str(n - 10)

\* a list of n numbers
NumList(n) == JList([i \in 1..n |-> JNum(i)])

\* the reply in which text is the value of result.artifacts[0].parts[0].text
ArtifactParts(parts) ==
    JObj(<< <<"artifacts", JList(<< JObj(<< <<"parts", parts>> >>) >>)>> >>)
ArtifactText(text) == ArtifactParts(JList(<< JObj(<< <<"text", text>> >>) >>))

\* what a rule finds in a well-typed reply: no key, the empty string, a text
RuleChoices == {"missing", "empty", "text"}
RuleKey == <<"result", "text", "content", "message", "response">>
RuleField(i, text) ==
    CASE i = 1 -> ArtifactText(text)
      [] i = 3 -> JObj(<< <<"text", text>> >>)
      [] i = 4 -> JObj(<< <<"content", text>> >>)
      [] OTHER -> text
RulePair(i, choice) ==
    IF choice = "missing" THEN <<>>
    ELSE << <<RuleKey[i], RuleField(i, IF choice = "empty" THEN JStr("")
                                       ELSE JStr("r" \o ToString(i)))>> >>
TypedReply(f) ==
    JObj(RulePair(1, f[1]) \o RulePair(2, f[2]) \o RulePair(3, f[3])
         \o RulePair(4, f[4]) \o RulePair(5, f[5]))
TypedReplies == {TypedReply(f) : f \in [1..5 -> RuleChoices]}

\* values of a type the code does not expect at the place they are put
OddValues ==
    {JNull, JBool(TRUE), JBool(FALSE), JNum(0), JNum(5), JStr(""), JStr("x"),
     EmptyList, NumList(1), JList(<<JStr("x")>>), EmptyDict,
     JObj(<< <<"k", JNum(1)>> >>)}

\* the reply with the odd value w at one probed place and a text for rule 5
OddAt(place, w) ==
    LET r5 == << <<"response", JStr("r5")>> >> IN
    CASE place = "result" -> JObj(<< <<"result", w>> >> \o r5)
      [] place = "artifacts" -> JObj(<< <<"result", JObj(<< <<"artifacts", w>> >>)>> >> \o r5)
      [] place = "artifacts[0]" ->
            JObj(<< <<"result", JObj(<< <<"artifacts", JList(<<w>>)>> >>)>> >> \o r5)
      [] place = "parts" -> JObj(<< <<"result", ArtifactParts(w)>> >> \o r5)
      [] place = "parts[0]" -> JObj(<< <<"result", ArtifactParts(JList(<<w>>))>> >> \o r5)
      [] place = "parts[0].text" -> JObj(<< <<"result", ArtifactText(w)>> >> \o r5)
      [] place = "text" -> JObj(<< <<"text", w>> >> \o r5)
      [] place = "content" -> JObj(<< <<"content", w>> >> \o r5)
      [] place = "content.text" -> JObj(<< <<"content", JObj(<< <<"text", w>> >>)>> >> \o r5)
      [] place = "message" -> JObj(<< <<"message", w>> >> \o r5)
      [] place = "message.content" ->
            JObj(<< <<"message", JObj(<< <<"content", w>> >>)>> >> \o r5)
      [] place = "response" -> JObj(<< <<"response", w>> >>)
Places ==
    {"result", "artifacts", "artifacts[0]", "parts", "parts[0]", "parts[0].text", "text",
     "content", "content.text", "message", "message.content", "response"}
OddReplies == {OddAt(place, w) : place \in Places, w \in OddValues}

\* texts of every length up to MaxTextLen, and the 250 characters of the
\* example; lists longer than the snapshot keeps
LengthReplies ==
    {ReplyText(JStr(Str(n))) : n \in (0..MaxTextLen) \cup {250}}
    \cup {ReplyText(NumList(n)) : n \in {TruncateAt, TruncateAt + 1}}

ExtractReplies == TypedReplies \cup OddReplies \cup LengthReplies \cup OddValues
ExtractOutcomes == {HttpResponse(200, TRUE, body) : body \in ExtractReplies}

ExtractNext ==
    \/ RunSseStart(1, "appA", "alice", "s1", MsgParts("hi"))
    \/ \E o \in ExtractOutcomes : RunSseComplete(1, o)

ExtractSpec == Init /\ [][ExtractNext]_vars

(***************************************************************************)
(* Properties.                                                             *)
(***************************************************************************)
\* the ids of a sequence of events, in order
EventIds(events) == [i \in DOMAIN events |-> events[i].id]

\* the event of a log that has the given id, and whether there is one
HasEvent(events, id) == \E i \in DOMAIN events : events[i].id = id

\* C1: the event log of every session holds exactly the events appended to
\* it, in the order they were appended (appendLog is the history of the
\* appends), and no two events of one session share an id.  It holds in
\* every interleaving of the chat turns, hence in those that do not
\* interleave.
EventLogInAppendOrder ==
    \A r \in DOMAIN heap :
        /\ EventIds(heap[r].events) = appendLog[r]
        /\ \A i, j \in DOMAIN heap[r].events :
              heap[r].events[i].id = heap[r].events[j].id => i = j

\* two turns, one after the other, have each appended a user_message and an
\* agent_response to the same session
TwoTurnsLogged ==
    \E r \in DOMAIN heap :
        /\ EventIds(heap[r].events) =
              <<RequestUuid(1, 1), RequestUuid(1, 5), RequestUuid(2, 1), RequestUuid(2, 5)>>
        /\ [i \in 1..4 |-> heap[r].events[i].type] =
              <<"user_message", "agent_response", "user_message", "agent_response">>

\* C2: two chat turns that have arrived with the same session id (none of
\* them an id deleted since) both have their user_message in the event log
\* of the session stored under that id, whatever the interleaving and
\* whoever created the session.
NoLostUserMessage ==
    \A t1, t2 \in Turns :
        (/\ t1 # t2
         /\ turn[t1].pc # "idle" /\ turn[t2].pc # "idle"
         /\ turn[t1].session_id = turn[t2].session_id
         /\ turn[t1].session_id \notin deleted)
        => /\ turn[t1].session_id \in DOMAIN sessions
           /\ HasEvent(heap[sessions[turn[t1].session_id]].events, turn[t1].user_event_id)
           /\ HasEvent(heap[sessions[turn[t1].session_id]].events, turn[t2].user_event_id)

\* both turns are suspended on their outbound call, on an id that was unknown
\* when the first arrived, and the stored session holds both user messages
BothTurnsInFlight ==
    /\ turn[1].pc = "awaiting" /\ turn[2].pc = "awaiting"
    /\ turn[1].session_id = "s1" /\ turn[2].session_id = "s1"
    /\ "s1" \in DOMAIN sessions
    /\ EventIds(heap[sessions["s1"]].events) = <<RequestUuid(1, 1), RequestUuid(2, 1)>>

\* C3: no session is stored under the key "", "undefined" or "null".
NoSentinelKey ==
    \A k \in DOMAIN sessions : k \notin Sentinels

\* the (appName, userId) a session was created under
Owner(session) == <<session.appName, session.userId>>

\* what the client sees of a response
Seen(r) == <<r.status, r.detail, r.body>>

\* C4: for every id present in the store, get_session by a caller other than
\* the one the session was created under answers 403, with no session data,
\* and leaves the store as it was.
ForbiddenToOthers ==
    \A k \in DOMAIN sessions, c \in Callers :
        Owner(heap[sessions[k]]) # c
        => LET r == get_session(sessions, heap, clock + 1, c[1], c[2], k)
           IN /\ r.status = 403
              /\ r.body = <<>>
              /\ r.sessions = sessions
              /\ r.heap = heap

\* C5: an id deleted with success and absent from the store since is
\* answered 404 by get_session, whoever asks.
NotFoundAfterDelete ==
    \A k \in deleted, c \in Callers :
        k \notin DOMAIN sessions
        => get_session(sessions, heap, clock + 1, c[1], c[2], k).status = 404

\* does the caller own the session stored under the id
Owns(c, k) == k \in DOMAIN sessions /\ Owner(heap[sessions[k]]) = c

\* the store without the sessions of the other owners
OwnStore(c) ==
    [k \in {j \in DOMAIN sessions : Owner(heap[sessions[j]]) = c} |-> sessions[k]]

\* the objects, each session of another owner replaced by an empty session
\* of a stranger under the same id
Scrub(c) ==
    [r \in DOMAIN heap |->
        IF Owner(heap[r]) = c THEN heap[r] ELSE Session(heap[r].id, "-", "-", 0, <<>>)]

WellShapedFrame(f) ==
    /\ DOMAIN f = {"id", "author", "content"}
    /\ f.id # ""
    /\ f.author = "model"
    /\ \E text \in {DictGet(DictGet(f.content, "parts", EmptyList).items[1], "text", JNull)} :
          f.content = Content(text)

\* C6: a chat turn that has arrived yields nothing while its outbound call
\* is pending, always gets to its end, has then yielded exactly one frame of
\* the shape {id, author: "model", content: {parts: [{text}]}}, and yields
\* nothing after: for every reply, status, failure or timeout of the
\* outbound call and for every newMessage.
TurnEndsWithOneFrame ==
    /\ [](\A t \in Turns :
            /\ turn[t].pc = "done"
                  => Len(turn[t].frames) = 1 /\ WellShapedFrame(turn[t].frames[1])
            /\ turn[t].pc # "done" => turn[t].frames = <<>>)
    /\ [][\A t \in Turns : turn[t].pc = "done" => turn'[t] = turn[t]]_vars
    /\ \A t \in Turns : (turn[t].pc # "idle") ~> (turn[t].pc = "done")

\* one turn has ended on a failure of the outbound call and another on a
\* newMessage that is no object, each with its one frame
FailedTurnsAnswered ==
    /\ turn[1].pc = "done" /\ turn[1].response = RequestError
    /\ turn[1].frames = <<Frame(RequestUuid(1, 4), JStr(ConnectErrorText))>>
    /\ turn[2].pc = "done" /\ turn[2].new_message = JNull
    /\ turn[2].agent_request = NoRequest
    /\ Len(turn[2].frames) = 1

\* the reply of a turn that ended on a 200 answer holding a JSON object
RepliedObject(t) ==
    /\ turn[t].pc = "done"
    /\ turn[t].response.kind = "response"
    /\ turn[t].response.status = 200
    /\ turn[t].response.isJson
    /\ IsDict(turn[t].response.body)

\* C7: on every JSON object the remote agent replies, the extraction raises
\* no exception and gives a non-empty string.
ExtractionTotal ==
    \A t \in Turns :
        RepliedObject(t)
        => LET e == ExtractText(turn[t].response.body)
           IN ~e.raised /\ IsStr(e.val) /\ e.val.s # ""

\* the value under a key of an object, and the first item of a list; null
\* where there is none
ValueAt(j, key) == IF IsDict(j) /\ HasKey(j, key) THEN DictGet(j, key, JNull) ELSE JNull
FirstOf(j) == IF j.t = "list" /\ j.items # <<>> THEN j.items[1] ELSE JNull

\* the value at the path of each of the five rules
RuleValue(i, agent_response) ==
    CASE i = 1 -> ValueAt(FirstOf(ValueAt(FirstOf(ValueAt(ValueAt(agent_response,
                      "result"), "artifacts")), "parts")), "text")
      [] i = 2 -> ValueAt(agent_response, "text")
      [] i = 3 -> ValueAt(ValueAt(agent_response, "content"), "text")
      [] i = 4 -> ValueAt(ValueAt(agent_response, "message"), "content")
      [] i = 5 -> ValueAt(agent_response, "response")

RuleHits(i, agent_response) ==
    IsStr(RuleValue(i, agent_response)) /\ RuleValue(i, agent_response).s # ""

\* the value of the first rule that gives a non-empty string, and the
\* diagnostic text when none does
FirstRuleText(agent_response) ==
    IF \E i \in 1..5 : RuleHits(i, agent_response)
    THEN LET i == CHOOSE i \in 1..5 :
                     /\ RuleHits(i, agent_response)
                     /\ \A j \in 1..(i - 1) : ~RuleHits(j, agent_response)
         IN RuleValue(i, agent_response)
    ELSE JStr(FallbackPrefix \o Dumps(agent_response))

\* C8: on every JSON object the remote agent replies, the extraction gives
\* the value of the first of the five rules, in their order, whose value is
\* a non-empty string, and the diagnostic text only when none of them has
\* one.
ExtractionInRuleOrder ==
    \A t \in Turns :
        RepliedObject(t)
        => ExtractText(turn[t].response.body)
              = Return(FirstRuleText(turn[t].response.body))

\* the text of the agent_response event that is the last of a log
LastAgentText(events) ==
    DictGet(DictGet(events[Len(events)].content, "parts", EmptyList).items[1], "text", JNull)

\* C9: after an agent turn on a text, the lastAgentResponse of the state
\* snapshot is the text itself when it has at most 100 characters, and is
\* its first 100 characters followed by "..." when it has more.
SnapshotKeepsFirst100 ==
    \A r \in DOMAIN heap :
        (/\ heap[r].events # <<>>
         /\ heap[r].events[Len(heap[r].events)].type = "agent_response"
         /\ IsStr(LastAgentText(heap[r].events)))
        => LET text == LastAgentText(heap[r].events).s
               kept == DictGet(heap[r].state, "lastAgentResponse", JNull)
           IN /\ HasKey(heap[r].state, "lastAgentResponse")
              /\ Len(text) <= 100 => kept = JStr(text)
              /\ Len(text) > 100
                    => /\ IsStr(kept)
                       /\ Len(kept.s) = 103
                       /\ SubSeq(kept.s, 1, 100) = SubSeq(text, 1, 100)
                       /\ SubSeq(kept.s, 101, 103) = "..."

\* the agent has answered a text of 250 characters and the snapshot holds
\* 100 of them and the marker
LongTextCut ==
    \E r \in DOMAIN heap :
        /\ heap[r].events # <<>>
        /\ LastAgentText(heap[r].events) = JStr(Str(250))
        /\ DictGet(heap[r].state, "lastAgentResponse", JNull) = JStr(Str(100) \o "...")

\* C11: an import request, served through the routes, stores a session under
\* an id that was not in the store, owned by the (app, user) of the request,
\* whose event log is the events of the body.
ImportKeepsEvents ==
    \A c \in Callers, b \in ImportBodies :
        LET r == post_sessions(sessions, heap, clock + 1, c[1], c[2], b)
            id == r.body[1].sessionId
        IN /\ id \notin DOMAIN sessions
           /\ id \in DOMAIN r.sessions
           /\ Owner(r.heap[r.sessions[id]]) = c
           /\ r.heap[r.sessions[id]].events
                = (IF b.has_events THEN b.events ELSE <<>>)

\* is the sequence s the beginning of the sequence t
IsPrefix(s, t) == Len(s) <= Len(t) /\ SubSeq(t, 1, Len(s)) = s

\* C12: in every step, the event log of every session that stays in the
\* store begins with the log it had before the step, and so does the log
\* of every Session object: events are neither removed, rewritten nor
\* reordered once appended.
EventLogAppendOnly ==
    [][/\ \A k \in DOMAIN sessions \cap DOMAIN sessions' :
              IsPrefix(heap[sessions[k]].events, heap'[sessions'[k]].events)
       /\ \A r \in DOMAIN heap :
              r \in DOMAIN heap' /\ IsPrefix(heap[r].events, heap'[r].events)]_vars

\* a log of three events has grown while a second turn is in flight on it
\* and another session has been created and deleted
LogGrownBesideOthers ==
    /\ "s1" \in DOMAIN sessions
    /\ EventIds(heap[sessions["s1"]].events)
          = <<RequestUuid(1, 1), RequestUuid(1, 5), RequestUuid(2, 1)>>
    /\ turn[2].pc = "awaiting"
    /\ \E k \in deleted : k # "s1"

\* C13: a session leaves the store only by a delete_session that succeeds,
\* which removes nothing else; a session that stays keeps its object, its
\* appName, its userId and its creation time; and a delete_session that
\* answers 404 or 403, which is its answer to every caller but the owner,
\* leaves the store as it was.
DestroyedOnlyByDelete ==
    /\ [](\A c \in Callers, k \in KnownIds :
            LET d == delete_session(sessions, heap, c[1], c[2], k) IN
            /\ d.status \in {200, 403, 404}
            /\ d.status = 200 <=> Owns(c, k)
            /\ d.status # 200 => d.sessions = sessions /\ d.heap = heap)
    /\ [][\A k \in DOMAIN sessions :
            IF k \in DOMAIN sessions'
            THEN /\ sessions'[k] = sessions[k]
                 /\ Owner(heap'[sessions'[k]]) = Owner(heap[sessions[k]])
                 /\ heap'[sessions'[k]].createdAt = heap[sessions[k]].createdAt
            ELSE /\ deleted' = deleted \cup {k}
                 /\ DOMAIN sessions' = DOMAIN sessions \ {k}
                 /\ heap' = heap]_vars

\* a session has been deleted, and another that holds events stays in the
\* store, whose delete by a caller that does not own it is answered 403
DeletedByOwnerOnly ==
    \E k \in deleted :
        /\ k \notin DOMAIN sessions
        /\ \E j \in DOMAIN sessions :
              /\ heap[sessions[j]].events # <<>>
              /\ \E c \in Callers : delete_session(sessions, heap, c[1], c[2], j).status = 403

\* the keys of an object
Keys(d) == {d.pairs[i][1] : i \in DOMAIN d.pairs}

\* the step has appended an agent_response event to the Session object r
AgentEventAppended(r) ==
    /\ r \in DOMAIN heap'
    /\ Len(heap'[r].events) = Len(heap[r].events) + 1
    /\ heap'[r].events[Len(heap'[r].events)].type = "agent_response"

\* the state of a session is the snapshot of exactly the three keys, with
\* the given messageCount
IsSnapshot(state, count) ==
    /\ Len(state.pairs) = 3
    /\ Keys(state) = {"lastActivity", "messageCount", "lastAgentResponse"}
    /\ DictGet(state, "messageCount", JNull) = JNum(count)

\* C14: a step that appends an agent_response event leaves the state of the
\* session as exactly the keys lastActivity, messageCount and
\* lastAgentResponse, messageCount being the length of the log with the
\* event just appended.
SnapshotAfterAgentEvent ==
    [][\A r \in DOMAIN heap :
          AgentEventAppended(r) => IsSnapshot(heap'[r].state, Len(heap'[r].events))]_vars

\* C15: in every state, get_session_trace on "", "undefined" or "null"
\* answers 200 with an empty trace, and on such an id as on an id that is
\* not in the store it leaves the store as it was.
EmptyTraceForSentinels ==
    /\ \A k \in Sentinels :
          LET r == get_session_trace(sessions, heap, k)
          IN /\ r.status = 200
             /\ r.trace = <<>>
             /\ r.performance = <<>>
             /\ r.sessions = sessions /\ r.heap = heap
    /\ \A k \in (KnownIds \cup {"uuid-unknown"}) \ DOMAIN sessions :
          LET r == get_session_trace(sessions, heap, k)
          IN /\ r.status = 200
             /\ r.trace = <<>>
             /\ r.sessions = sessions /\ r.heap = heap

\* a session that holds the events of a turn is stored under "undefined",
\* and the trace asked for that id is empty
SentinelTraceEmpty ==
    /\ "undefined" \in DOMAIN sessions
    /\ Len(heap[sessions["undefined"]].events) = 2
    /\ get_session_trace(sessions, heap, "undefined").trace = <<>>

\* the number of events of a type in a log
CountType(events, type) == Cardinality({i \in DOMAIN events : events[i].type = type})

\* C16: for every session in the store, get_session_trace gives its events
\* in the order of the log, totalEvents the length of the log, userMessages
\* the number of user_message events and agentMessages the number of
\* agent_response events, the two adding up to totalEvents.
TraceCountsEvents ==
    \A k \in DOMAIN sessions :
        LET events == heap[sessions[k]].events
            r == get_session_trace(sessions, heap, k)
        IN /\ EventIds(r.trace) = EventIds(events)
           /\ Len(r.performance) = 1
           /\ r.performance[1].totalEvents = Len(events)
           /\ r.performance[1].userMessages = CountType(events, "user_message")
           /\ r.performance[1].agentMessages = CountType(events, "agent_response")
           /\ r.performance[1].userMessages + r.performance[1].agentMessages
                = r.performance[1].totalEvents

\* the url of a body of PUT /config/agent-url, the empty string when the key
\* is missing
BodyUrl(config) == DictGet(config, "url", JStr(""))

\* C17: PUT /config/agent-url with a non-empty url answers 200 and GET
\* /config/agent-url then returns that url; with an empty or missing url it
\* answers 400 and leaves the URL as it was; and a step that changes the URL
\* sets it to the non-empty url of a body and changes nothing else.
UrlChangedOnlyByPut ==
    /\ [](\A config \in ConfigBodies :
            LET r == update_agent_url(REMOTE_AGENT_URL, config) IN
            /\ get_agent_url(REMOTE_AGENT_URL).remote_agent_url = REMOTE_AGENT_URL
            /\ get_agent_url(REMOTE_AGENT_URL).url = REMOTE_AGENT_URL
            /\ IF Truthy(BodyUrl(config))
               THEN /\ r.status = 200
                    /\ r.url = BodyUrl(config)
                    /\ get_agent_url(r.url).remote_agent_url = BodyUrl(config)
               ELSE /\ r.status = 400
                    /\ r.url = REMOTE_AGENT_URL)
    /\ [][REMOTE_AGENT_URL' # REMOTE_AGENT_URL =>
            /\ \E config \in ConfigBodies :
                  /\ Truthy(BodyUrl(config))
                  /\ REMOTE_AGENT_URL' = BodyUrl(config)
            /\ UNCHANGED <<sessions, heap, turn, clock, deleted, appendLog,
                           websocket_connections, ws>>]_vars

\* the URL is a replacement, in a state where a chat turn has completed and
\* a socket is connected
UrlReplaced ==
    /\ REMOTE_AGENT_URL = JStr("http://agent:9000")
    /\ turn[1].pc = "done"
    /\ websocket_connections # <<>>

\* the connections in websocket_connections
Connected == {websocket_connections[i] : i \in DOMAIN websocket_connections}

\* C18: a connection whose handler has ended, by a disconnect of the client
\* or by a frame that the handler cannot process, is not in
\* websocket_connections, and a connection that is there has a handler that
\* is running.
ConnectedOnlyWhileRunning ==
    \A w \in Sockets :
        /\ ws[w].pc = "ended" => w \notin Connected
        /\ w \in Connected => ws[w].pc = "receiving"

\* the text of the user in newMessage: the text of the first part when there
\* are parts, the text of the message otherwise, and the empty string when
\* the key is missing
UserText(new_message) ==
    IF Truthy(DictGet(new_message, "parts", JNull))
    THEN DictGet(DictGet(new_message, "parts", JNull).items[1], "text", JStr(""))
    ELSE DictGet(new_message, "text", JStr(""))

\* C19: the text part of the envelope of a turn is the text of the user
\* when it is not empty, and "Hello" when it is empty, be it a missing key
\* or the empty string.
EnvelopeTextOrHello ==
    \A t \in Turns :
        turn[t].agent_request # NoRequest =>
            turn[t].agent_request.text =
                IF UserText(turn[t].new_message) = JStr("")
                THEN JStr("Hello")
                ELSE UserText(turn[t].new_message)

\* the event with the id is in the log of the session object r
Logged(objs, r, id) == r \in DOMAIN objs /\ HasEvent(objs[r].events, id)

\* C20: a turn that waits for its outbound call has its user_message in the
\* log of its session and no agent_response there, whatever the other turn
\* does meanwhile; an agent_response follows the user_message of its own
\* turn; and the agent_response of a turn enters a log only in the step in
\* which the outbound call of that turn completes, as the last event of the
\* log, so that the agent_response events are in the order of completion.
AgentResponsesInCompletionOrder ==
    /\ [](\A t \in Turns :
            /\ turn[t].pc = "idle" =>
                  \A r \in DOMAIN heap : /\ ~Logged(heap, r, RequestUuid(t, 1))
                                         /\ ~Logged(heap, r, RequestUuid(t, 5))
            /\ turn[t].pc = "awaiting" =>
                  /\ Logged(heap, turn[t].current_session, RequestUuid(t, 1))
                  /\ \A r \in DOMAIN heap : ~Logged(heap, r, RequestUuid(t, 5))
            /\ \A r \in DOMAIN heap :
                  Logged(heap, r, RequestUuid(t, 5)) =>
                      /\ r = turn[t].current_session
                      /\ \E i, j \in DOMAIN heap[r].events :
                            /\ i < j
                            /\ heap[r].events[i].id = RequestUuid(t, 1)
                            /\ heap[r].events[i].type = "user_message"
                            /\ heap[r].events[j].id = RequestUuid(t, 5)
                            /\ heap[r].events[j].type = "agent_response")
    /\ [][\A t \in Turns, r \in DOMAIN heap' :
            (Logged(heap', r, RequestUuid(t, 5)) /\ ~Logged(heap, r, RequestUuid(t, 5))) =>
                /\ turn[t].pc = "awaiting" /\ turn'[t].pc = "done"
                /\ r = turn[t].current_session
                /\ Len(heap'[r].events) = Len(heap[r].events) + 1
                /\ SubSeq(heap'[r].events, 1, Len(heap[r].events)) = heap[r].events
                /\ heap'[r].events[Len(heap'[r].events)].id = RequestUuid(t, 5)]_vars

\* both turns were in flight on "s1", and the call of the second completed
\* first: the log is user1, user2, agent2, agent1
SecondTurnAnsweredFirst ==
    /\ "s1" \in DOMAIN sessions
    /\ turn[1].session_id = "s1" /\ turn[2].session_id = "s1"
    /\ EventIds(heap[sessions["s1"]].events) =
          <<RequestUuid(1, 1), RequestUuid(2, 1), RequestUuid(2, 5), RequestUuid(1, 5)>>
    /\ [i \in 1..4 |-> heap[sessions["s1"]].events[i].type] =
          <<"user_message", "user_message", "agent_response", "agent_response">>

\* C21: for every caller, list_sessions returns one entry for each stored
\* session of that app and user and no other entry, and the eventCount of
\* an entry is the length of the event log of its session.
ListShowsOwnSessions ==
    \A c \in Callers :
        LET listed == list_sessions(sessions, heap, c[1], c[2]) IN
        /\ {listed[i].id : i \in DOMAIN listed} = {k \in DOMAIN sessions : Owns(c, k)}
        /\ Len(listed) = Cardinality({k \in DOMAIN sessions : Owns(c, k)})
        /\ \A i \in DOMAIN listed :
              /\ listed[i].appName = c[1] /\ listed[i].userId = c[2]
              /\ listed[i].eventCount = Len(heap[sessions[listed[i].id]].events)

\* the store holds a session of alice in appA with two events and a session
\* of alice in appB, and the list of appA shows the first alone
ListedBesideOtherApp ==
    /\ \E k \in DOMAIN sessions : Owns(<<"appB", "alice">>, k)
    /\ LET listed == list_sessions(sessions, heap, "appA", "alice") IN
       /\ Len(listed) = 1
       /\ listed[1].eventCount = 2

\* C22: in the step in which a turn appends its agent_response, the session
\* object it appends to is the one stored under the session id of the turn.
AgentEventInStoredSession ==
    [][\A t \in Turns, r \in DOMAIN heap' :
          (Logged(heap', r, RequestUuid(t, 5)) /\ ~Logged(heap, r, RequestUuid(t, 5))) =>
              /\ turn[t].session_id \in DOMAIN sessions'
              /\ sessions'[turn[t].session_id] = r]_vars

\* the step ends the turn t
TurnCompletes(t) == turn[t].pc = "awaiting" /\ turn'[t].pc = "done"

\* the step has replaced the state of the Session object r by a snapshot
StateReplaced(r) ==
    /\ heap'[r].state # heap[r].state
    /\ IsSnapshot(heap'[r].state, Len(heap'[r].events))

\* C23: in the step that ends a turn, the agent_response event is appended
\* if and only if the state snapshot is replaced, and if it is appended the
\* one frame of the turn carries the content of the event; when it is not
\* appended the state is left as it was.
EffectsTogether ==
    [][\A t \in Turns :
          TurnCompletes(t) =>
              LET r == turn[t].current_session IN
              /\ AgentEventAppended(r) <=> StateReplaced(r)
              /\ AgentEventAppended(r) =>
                    /\ Len(turn'[t].frames) = 1
                    /\ turn'[t].frames[1].content =
                          heap'[r].events[Len(heap'[r].events)].content
              /\ ~AgentEventAppended(r) => heap'[r] = heap[r]]_vars

\* the outbound call of the turn has failed: a status that is not 200, or a
\* RequestError (no connection, timeout)
CallFailed(outcome) == outcome.kind = "RequestError" \/ outcome.status # 200

\* C24: the step that ends a turn whose outbound call has failed changes no
\* session object and no entry of the store: the user_message of the turn
\* stays in the log of its session, no agent_response is appended, and the
\* state snapshot of the session and every other session are as before.
FailedCallChangesNothing ==
    [][\A t \in Turns :
          (TurnCompletes(t) /\ CallFailed(turn'[t].response)) =>
              /\ heap' = heap
              /\ sessions' = sessions
              /\ Logged(heap', turn[t].current_session, RequestUuid(t, 1))
              /\ \A r \in DOMAIN heap' : ~Logged(heap', r, RequestUuid(t, 5))]_vars

\* a turn has ended on a failed call beside a turn that was answered: the
\* log of the session holds the user_message of the first and both events
\* of the second, with the snapshot the second has left
FailedBesideAnswered ==
    /\ turn[1].pc = "done" /\ turn[1].response = RequestError
    /\ turn[2].pc = "done" /\ ~CallFailed(turn[2].response)
    /\ turn[1].current_session = turn[2].current_session
    /\ EventIds(heap[turn[1].current_session].events) =
          <<RequestUuid(1, 1), RequestUuid(2, 1), RequestUuid(2, 5)>>
    /\ IsSnapshot(heap[turn[1].current_session].state, 3)

\* C25: a chat turn writes only to a session of its requester: the session
\* object a turn has appended its events to has the appName and the userId
\* of the request.
ChatOnlyByOwner ==
    \A t \in Turns :
        turn[t].pc # "idle" =>
            Owner(heap[turn[t].current_session]) = <<turn[t].app_name, turn[t].user_id>>


====
